---- MODULE Spec2Model ----
(***************************************************************************)
(* Model of the request/response conversion and dispatch layer of the      *)
(* Azure OpenAI plugin for Genkit (package azopenai, openai.go).           *)
(*                                                                         *)
(* Text is modelled as a sequence of characters, so that concatenation     *)
(* and joining are computed as strings.Join / strings.Builder compute      *)
(* them.  A nil pointer is NilPtr, a pointer to v is Ptr(v).  An error is  *)
(* the chain of its messages, outermost first; the nil error is NoErr.     *)
(***************************************************************************)
EXTENDS Integers, Sequences, FiniteSets, TLC

(***************************************************************************)
(* Bounds of the model.                                                    *)
(***************************************************************************)
MaxParts == 3      \* parts of one message given to convertMessage
MaxMsgs == 2       \* messages of one request given to the request builder
MaxTools == 1      \* tools of one request given to the request builder
MaxChunks == 2     \* chunks one provider stream delivers before it ends
MaxChoices == 2    \* choices one chunk or one reply carries
MaxToolList == 2   \* tools of one list given to convertTools
MaxSplit == 2      \* parts of the two sequences given to extractTextContent, together

SeqsUpTo(S, n) == UNION {[1..k -> S] : k \in 0..n}

(***************************************************************************)
(* Values of the two libraries the package converts between.               *)
(***************************************************************************)
NilPtr == [isNil |-> TRUE]
Ptr(v) == [isNil |-> FALSE, val |-> v]

NoErr == <<>>

\* ai.Role (genkit); any other string is a role the package does not know
RoleSystem == "system"
RoleUser == "user"
RoleModel == "model"
RoleTool == "tool"
Roles == {RoleSystem, RoleUser, RoleModel, RoleTool, "unknown_role", ""}

\* ai.Part: a text part, or a media part whose Text field holds the URL
PartText == "text"
PartMedia == "media"
Texts == {<<>>, <<"a">>, <<"b">>}
Parts == [Kind : {PartText, PartMedia}, Text : Texts]
NewTextPart(text) == [Kind |-> PartText, Text |-> text]
IsText(part) == part.Kind = PartText

\* ai.FinishReason (genkit); "" is the zero value of the type
FinishReasonStop == "stop"
FinishReasonLength == "length"
FinishReasonBlocked == "blocked"
FinishReasonOther == "other"
FinishReasonUnset == ""

\* azopenai.CompletionsFinishReason (Azure SDK); the last two stand for the
\* empty value and for a value the SDK does not define
CompletionsFinishReasonStopped == "stop"
CompletionsFinishReasonTokenLimitReached == "length"
CompletionsFinishReasonContentFiltered == "content_filter"
CompletionsFinishReasonToolCalls == "tool_calls"
CompletionsFinishReasonFunctionCall == "function_call"
ProviderReasons ==
    { CompletionsFinishReasonStopped, CompletionsFinishReasonTokenLimitReached,
      CompletionsFinishReasonContentFiltered, CompletionsFinishReasonToolCalls,
      CompletionsFinishReasonFunctionCall, "", "future_reason" }

(***************************************************************************)
(* strings.Join                                                            *)
(***************************************************************************)
RECURSIVE Join(_, _)
Join(elems, sep) ==
    IF Len(elems) = 0 THEN <<>>
    ELSE IF Len(elems) = 1 THEN elems[1]
    ELSE elems[1] \o sep \o Join(Tail(elems), sep)

(***************************************************************************)
(* extractTextContent: the text parts' texts, joined with no separator.    *)
(***************************************************************************)
extractTextContent_spaced(parts) ==
    LET kept == SelectSeq(parts, IsText)
        textParts == [i \in 1..Len(kept) |-> kept[i].Text]
    IN  Join(textParts, <<" ">>)

extractTextContent(parts) ==
    LET kept == SelectSeq(parts, IsText)
        textParts == [i \in 1..Len(kept) |-> kept[i].Text]
    IN  Join(textParts, <<>>)

(***************************************************************************)
(* convertMessage: one provider message variant per known role.            *)
(***************************************************************************)
NilMessage == [Type |-> "nil"]

convertMessage_toolAsUser(msg) ==
    LET content == extractTextContent(msg.Content)
    IN  CASE msg.Role = RoleSystem ->
               [msg |-> [Type |-> "ChatRequestSystemMessage", Content |-> content],
                err |-> NoErr]
          [] msg.Role \in {RoleUser, RoleTool} ->
               [msg |-> [Type |-> "ChatRequestUserMessage", Content |-> content],
                err |-> NoErr]
          [] msg.Role = RoleModel ->
               [msg |-> [Type |-> "ChatRequestAssistantMessage", Content |-> content],
                err |-> NoErr]
          [] OTHER ->
               [msg |-> NilMessage, err |-> <<"unsupported role: ", msg.Role>>]

convertMessage(msg) ==
    LET content == extractTextContent(msg.Content)
    IN  CASE msg.Role = RoleSystem ->
               [msg |-> [Type |-> "ChatRequestSystemMessage", Content |-> content],
                err |-> NoErr]
          [] msg.Role = RoleUser ->
               [msg |-> [Type |-> "ChatRequestUserMessage", Content |-> content],
                err |-> NoErr]
          [] msg.Role = RoleModel ->
               [msg |-> [Type |-> "ChatRequestAssistantMessage", Content |-> content],
                err |-> NoErr]
          [] msg.Role = RoleTool ->
               [msg |-> [Type |-> "ChatRequestToolMessage", Content |-> content,
                         ToolCallID |-> "tool_call_id"],
                err |-> NoErr]
          [] OTHER ->
               [msg |-> NilMessage, err |-> <<"unsupported role: ", msg.Role>>]

(***************************************************************************)
(* json.Marshal of a tool's input schema (a map[string]any): a nil map     *)
(* encodes as null, a map encodes as an object of its entries, and a map   *)
(* holding a channel cannot be encoded.                                    *)
(***************************************************************************)
SchemaObject == [isNil |-> FALSE, entries |-> <<[key |-> "type", kind |-> "string", val |-> "object"]>>]
SchemaChan == [isNil |-> FALSE, entries |-> <<[key |-> "circular", kind |-> "chan", val |-> "int"]>>]
SchemaNil == [isNil |-> TRUE, entries |-> <<>>]

jsonMarshal(schema) ==
    IF schema.isNil THEN [bytes |-> <<"null">>, err |-> NoErr]
    ELSE IF \E i \in 1..Len(schema.entries) : schema.entries[i].kind = "chan"
    THEN [bytes |-> <<>>, err |-> <<"json: unsupported type: chan int">>]
    ELSE [bytes |-> <<"{">> \o
                    Join([i \in 1..Len(schema.entries) |->
                            <<"\"", schema.entries[i].key, "\":\"",
                              schema.entries[i].val, "\"">>], <<",">>)
                    \o <<"}">>,
          err |-> NoErr]

(***************************************************************************)
(* convertTools: one function tool definition per tool, or the first       *)
(* encoding error and no definitions.                                      *)
(***************************************************************************)
convertTools_partial(tools) ==
    LET bad == {i \in 1..Len(tools) : jsonMarshal(tools[i].InputSchema).err # NoErr}
    IN  IF bad # {}
        THEN LET first == CHOOSE i \in bad : \A j \in bad : i <= j
             IN  [tools |-> [i \in 1..(first - 1) |->
                               [Type |-> "function",
                                Function |-> [Name |-> tools[i].Name,
                                              Description |-> tools[i].Description,
                                              Parameters |-> jsonMarshal(tools[i].InputSchema).bytes]]],
                  err |-> <<"failed to marshal tool parameters: ">> \o
                          jsonMarshal(tools[first].InputSchema).err]
        ELSE [tools |-> [i \in 1..Len(tools) |->
                           [Type |-> "function",
                            Function |-> [Name |-> tools[i].Name,
                                          Description |-> tools[i].Description,
                                          Parameters |-> jsonMarshal(tools[i].InputSchema).bytes]]],
              err |-> NoErr]

convertTools(tools) ==
    LET bad == {i \in 1..Len(tools) : jsonMarshal(tools[i].InputSchema).err # NoErr}
    IN  IF bad # {}
        THEN LET first == CHOOSE i \in bad : \A j \in bad : i <= j
             IN  [tools |-> <<>>,
                  err |-> <<"failed to marshal tool parameters: ">> \o
                          jsonMarshal(tools[first].InputSchema).err]
        ELSE [tools |-> [i \in 1..Len(tools) |->
                           [Type |-> "function",
                            Function |-> [Name |-> tools[i].Name,
                                          Description |-> tools[i].Description,
                                          Parameters |-> jsonMarshal(tools[i].InputSchema).bytes]]],
              err |-> NoErr]

(***************************************************************************)
(* convertFinishReason                                                     *)
(***************************************************************************)
convertFinishReason_toolCallsOther(reason) ==
    CASE reason = CompletionsFinishReasonStopped -> FinishReasonStop
      [] reason = CompletionsFinishReasonTokenLimitReached -> FinishReasonLength
      [] reason = CompletionsFinishReasonContentFiltered -> FinishReasonBlocked
      [] OTHER -> FinishReasonOther

convertFinishReason(reason) ==
    CASE reason = CompletionsFinishReasonStopped -> FinishReasonStop
      [] reason = CompletionsFinishReasonTokenLimitReached -> FinishReasonLength
      [] reason = CompletionsFinishReasonContentFiltered -> FinishReasonBlocked
      [] reason = CompletionsFinishReasonToolCalls -> FinishReasonStop
      [] OTHER -> FinishReasonOther

(***************************************************************************)
(* OpenAIConfig and azopenai.ChatCompletionsOptions.  A map is its nil     *)
(* flag and its entries.                                                   *)
(***************************************************************************)
NilMap == [isNil |-> TRUE, m |-> <<>>]
EmptyMap == [isNil |-> FALSE, m |-> <<>>]
OneBias == [isNil |-> FALSE, m |-> <<[key |-> "test", val |-> "1"]>>]

ZeroConfig ==
    [DeploymentName |-> "", MaxTokens |-> NilPtr, Temperature |-> NilPtr,
     TopP |-> NilPtr, PresencePenalty |-> NilPtr, FrequencyPenalty |-> NilPtr,
     LogitBias |-> NilMap, User |-> "", Seed |-> NilPtr]

ZeroOptions ==
    [Messages |-> <<>>, DeploymentName |-> NilPtr, MaxTokens |-> NilPtr,
     Temperature |-> NilPtr, TopP |-> NilPtr, PresencePenalty |-> NilPtr,
     FrequencyPenalty |-> NilPtr, LogitBias |-> NilMap, User |-> NilPtr,
     Seed |-> NilPtr, Tools |-> <<>>]

(***************************************************************************)
(* convertToAzureOpenAIRequest: the messages are converted first, then the *)
(* deployment name is required, then the options and the tools are set.    *)
(***************************************************************************)
\* the loop over the messages returns at the first message that fails
FirstBad_last(bad) == CHOOSE i \in bad : \A j \in bad : i >= j

FirstBad(bad) == CHOOSE i \in bad : \A j \in bad : i <= j

\* options.User is set when cfg.User is not empty
UserOption_always(user) == Ptr(user)

UserOption(user) == IF user # "" THEN Ptr(user) ELSE NilPtr

\* trace: the number of convertMessage calls made and whether convertTools
\* was called
convertToAzureOpenAIRequest_nameFirst(mr_, cfg) ==
    LET conv == [i \in 1..Len(mr_.Messages) |-> convertMessage(mr_.Messages[i])]
        bad == {i \in 1..Len(conv) : conv[i].err # NoErr}
        tools == IF Len(mr_.Tools) > 0 THEN convertTools(mr_.Tools)
                 ELSE [tools |-> <<>>, err |-> NoErr]
    IN  IF cfg.DeploymentName = ""
        THEN [options |-> ZeroOptions, err |-> <<"deployment name is required">>,
              trace |-> [messages |-> 0, tools |-> FALSE]]
        ELSE IF bad # {}
        THEN [options |-> ZeroOptions, err |-> conv[FirstBad(bad)].err,
              trace |-> [messages |-> FirstBad(bad), tools |-> FALSE]]
        ELSE IF tools.err # NoErr
        THEN [options |-> ZeroOptions, err |-> tools.err,
              trace |-> [messages |-> Len(conv), tools |-> TRUE]]
        ELSE [options |->
                [Messages |-> [i \in 1..Len(conv) |-> conv[i].msg],
                 DeploymentName |-> Ptr(cfg.DeploymentName),
                 MaxTokens |-> IF ~cfg.MaxTokens.isNil THEN cfg.MaxTokens ELSE NilPtr,
                 Temperature |-> IF ~cfg.Temperature.isNil THEN cfg.Temperature ELSE NilPtr,
                 TopP |-> IF ~cfg.TopP.isNil THEN cfg.TopP ELSE NilPtr,
                 PresencePenalty |->
                     IF ~cfg.PresencePenalty.isNil THEN cfg.PresencePenalty ELSE NilPtr,
                 FrequencyPenalty |->
                     IF ~cfg.FrequencyPenalty.isNil THEN cfg.FrequencyPenalty ELSE NilPtr,
                 LogitBias |-> IF Len(cfg.LogitBias.m) > 0 THEN cfg.LogitBias ELSE NilMap,
                 User |-> UserOption(cfg.User),
                 Seed |-> IF ~cfg.Seed.isNil THEN cfg.Seed ELSE NilPtr,
                 Tools |-> tools.tools],
              err |-> NoErr,
              trace |-> [messages |-> Len(conv), tools |-> Len(mr_.Tools) > 0]]

convertToAzureOpenAIRequest(mr_, cfg) ==
    LET conv == [i \in 1..Len(mr_.Messages) |-> convertMessage(mr_.Messages[i])]
        bad == {i \in 1..Len(conv) : conv[i].err # NoErr}
        tools == IF Len(mr_.Tools) > 0 THEN convertTools(mr_.Tools)
                 ELSE [tools |-> <<>>, err |-> NoErr]
    IN  IF bad # {}
        THEN [options |-> ZeroOptions, err |-> conv[FirstBad(bad)].err,
              trace |-> [messages |-> FirstBad(bad), tools |-> FALSE]]
        ELSE IF cfg.DeploymentName = ""
        THEN [options |-> ZeroOptions, err |-> <<"deployment name is required">>,
              trace |-> [messages |-> Len(conv), tools |-> FALSE]]
        ELSE IF tools.err # NoErr
        THEN [options |-> ZeroOptions, err |-> tools.err,
              trace |-> [messages |-> Len(conv), tools |-> TRUE]]
        ELSE [options |->
                [Messages |-> [i \in 1..Len(conv) |-> conv[i].msg],
                 DeploymentName |-> Ptr(cfg.DeploymentName),
                 MaxTokens |-> IF ~cfg.MaxTokens.isNil THEN cfg.MaxTokens ELSE NilPtr,
                 Temperature |-> IF ~cfg.Temperature.isNil THEN cfg.Temperature ELSE NilPtr,
                 TopP |-> IF ~cfg.TopP.isNil THEN cfg.TopP ELSE NilPtr,
                 PresencePenalty |->
                     IF ~cfg.PresencePenalty.isNil THEN cfg.PresencePenalty ELSE NilPtr,
                 FrequencyPenalty |->
                     IF ~cfg.FrequencyPenalty.isNil THEN cfg.FrequencyPenalty ELSE NilPtr,
                 LogitBias |-> IF Len(cfg.LogitBias.m) > 0 THEN cfg.LogitBias ELSE NilMap,
                 User |-> UserOption(cfg.User),
                 Seed |-> IF ~cfg.Seed.isNil THEN cfg.Seed ELSE NilPtr,
                 Tools |-> tools.tools],
              err |-> NoErr,
              trace |-> [messages |-> Len(conv), tools |-> Len(mr_.Tools) > 0]]

(***************************************************************************)
(* Inputs of the conversion functions.                                     *)
(***************************************************************************)
Messages == [Role : Roles, Content : SeqsUpTo(Parts, MaxParts)]

\* the messages of a request: every role, one text part
RequestMessages == [Role : Roles \ {""}, Content : {<<NewTextPart(<<"a">>)>>}]

ToolDefinitions ==
    { [Name |-> "test_tool", Description |-> "A test tool", InputSchema |-> SchemaObject],
      [Name |-> "chan_tool", Description |-> "A tool with a channel", InputSchema |-> SchemaChan] }

NoConfig == [type |-> "nil"]
OtherConfig == [type |-> "other"]
OpenAIConfigPtr(cfg) == [type |-> "OpenAIConfig", isNil |-> FALSE, cfg |-> cfg]
NilOpenAIConfigPtr == [type |-> "OpenAIConfig", isNil |-> TRUE]

ModelRequests ==
    [Messages : SeqsUpTo(RequestMessages, MaxMsgs),
     Tools : SeqsUpTo(ToolDefinitions, MaxTools),
     Config : {NoConfig}]

\* the optional pointer fields: none set, each one set alone, or all set
PointerFields == {"MaxTokens", "Temperature", "TopP", "PresencePenalty", "FrequencyPenalty", "Seed"}
FieldValue(f) ==
    CASE f = "MaxTokens" -> "100" [] f = "Temperature" -> "0.7" [] f = "TopP" -> "0.9"
      [] f = "PresencePenalty" -> "0.1" [] f = "FrequencyPenalty" -> "0.2" [] OTHER -> "42"
FieldSets == {{}} \cup {{f} : f \in PointerFields} \cup {PointerFields}
Opt(set, f) == IF f \in set THEN Ptr(FieldValue(f)) ELSE NilPtr

Configs ==
    { [DeploymentName |-> d, MaxTokens |-> Opt(fs, "MaxTokens"),
       Temperature |-> Opt(fs, "Temperature"), TopP |-> Opt(fs, "TopP"),
       PresencePenalty |-> Opt(fs, "PresencePenalty"),
       FrequencyPenalty |-> Opt(fs, "FrequencyPenalty"),
       LogitBias |-> lb, User |-> u, Seed |-> Opt(fs, "Seed")] :
      d \in {"", "dep1"}, fs \in FieldSets, lb \in {NilMap, EmptyMap, OneBias},
      u \in {"", "test-user"} }

\* the tool lists given to convertTools alone: the two tools above and a
\* tool that has no input schema
ToolLists ==
    SeqsUpTo(ToolDefinitions \cup
               {[Name |-> "plain_tool", Description |-> "", InputSchema |-> SchemaNil]},
             MaxToolList)

\* the two part sequences whose concatenation extractTextContent is given; a
\* nil slice and an empty slice are both the empty sequence, as range and
\* append treat them alike
PartSplits ==
    { <<p1, p2>> \in SeqsUpTo(Parts, MaxSplit) \X SeqsUpTo(Parts, MaxSplit) :
        Len(p1) + Len(p2) <= MaxSplit }

ConvInputs ==
    {[op |-> "convertMessage", msg |-> m] : m \in Messages}
    \cup {[op |-> "convertTools", tools |-> ts] : ts \in ToolLists}
    \cup {[op |-> "extractTextContent", parts1 |-> ps[1], parts2 |-> ps[2]] :
            ps \in PartSplits}
    \cup {[op |-> "convertToAzureOpenAIRequest", mr |-> r, cfg |-> c] :
            r \in ModelRequests, c \in Configs}
    \cup {[op |-> "convertFinishReason", reason |-> r] : r \in ProviderReasons}

(***************************************************************************)
(* State.                                                                  *)
(***************************************************************************)
VARIABLES
    input,          \* the arguments of a conversion function under test
    output,         \* what it returned
    mr,             \* handler: the *ai.ModelRequest of the call
    cb,             \* handler: TRUE iff a stream callback was supplied
    pc,             \* handler: where the call is
    options,        \* handler: azRequest, the provider request built
    calls,          \* the provider API calls made, in order
    opened,         \* streaming: the provider stream was opened
    reads,          \* streaming: number of Read calls on the stream
    closes,         \* streaming: number of Close calls on the stream
    chunkNo,        \* streaming: number of chunks read so far
    nChoices,       \* streaming: number of choices of the current chunk
    choiceIdx,      \* streaming: index of the choice being processed
    choice,         \* streaming: the choice being processed
    fullContent,    \* streaming: the strings.Builder
    finishReason,   \* streaming: the finish reason recorded so far
    delivered,      \* the text deltas the stream delivered, in arrival order
    lastRaw,        \* the last finish reason the stream delivered
    overwritten,    \* a finish reason recorded earlier was replaced by a later one
    cbLog,          \* the callback invocations, in order, with their results
    cbInChunk,      \* callback invocations for the chunk being processed
    reply,          \* what the provider returned to a single synchronous call
    result,         \* what the call returns: staged until pc = "done"
    req,            \* embedder: the *ai.EmbedRequest of the call
    body,           \* embedder: the azopenai.EmbeddingsOptions built
    az,             \* plugin: the fields of each AzureOpenAI instance
    mu,             \* plugin: the goroutine that holds each instance's mutex
    env,            \* plugin: the environment variables of the process
    registry,       \* plugin: the models and embedders registered with Genkit
    thread,         \* plugin: each goroutine's call, its position and locals
    conc,           \* concurrent chat calls: each call's position, stream and result
    locals          \* concurrent chat calls: the builder and the finish reason

vars == <<input, output, mr, cb, pc, options, calls, opened, reads, closes,
          chunkNo, nChoices, choiceIdx, choice, fullContent, finishReason,
          delivered, lastRaw, overwritten, cbLog, cbInChunk, reply, result,
          req, body, az, mu, env, registry, thread, conc, locals>>

pluginVars == <<az, mu, env, registry, thread>>

concVars == <<conc, locals>>

callVars == <<mr, cb, pc, options, calls, opened, reads, closes,
              chunkNo, nChoices, choiceIdx, choice, fullContent, finishReason,
              delivered, lastRaw, overwritten, cbLog, cbInChunk, reply, result,
              req, body>>

NilReason == "<nil>"
NoChoice == [Delta |-> [Content |-> NilPtr], FinishReason |-> NilPtr]
NoReply == [err |-> NoErr, Choices |-> <<>>]
NoResult == [status |-> "none"]
NoOptions == [type |-> "nil"]
NoEmbedRequest == [Input |-> <<>>, Options |-> NoOptions]
ZeroEmbeddingsOptions == [Input |-> <<>>, DeploymentName |-> NilPtr, User |-> NilPtr]

\* the state of a call before its handler has run
CallIdle(request, callback, at) ==
    /\ mr = request
    /\ cb = callback
    /\ pc = at
    /\ options = ZeroOptions
    /\ calls = <<>>
    /\ opened = FALSE
    /\ reads = 0
    /\ closes = 0
    /\ chunkNo = 0
    /\ nChoices = 0
    /\ choiceIdx = 0
    /\ choice = NoChoice
    /\ fullContent = <<>>
    /\ finishReason = FinishReasonUnset
    /\ delivered = <<>>
    /\ lastRaw = NilReason
    /\ overwritten = FALSE
    /\ cbLog = <<>>
    /\ cbInChunk = 0
    /\ reply = NoReply
    /\ result = NoResult

\* the state of an embedding call before its handler has run
EmbedIdle(request) ==
    /\ req = request
    /\ body = ZeroEmbeddingsOptions

MaxThreads == 2    \* goroutines that call the plugin

Threads == 1..MaxThreads
\* the plugin instances: the one the goroutines share and, for each
\* goroutine, the one Init makes for itself when its receiver is nil
SharedInstance == 0
Instances == {SharedInstance} \cup Threads
Unlocked == 0

NewPlugin(apiKey, endpoint) ==
    [APIKey |-> apiKey, Endpoint |-> endpoint, client |-> NilPtr, initted |-> FALSE]
NoEnv == [AZURE_OPEN_AI_API_KEY |-> "", AZURE_OPEN_AI_ENDPOINT |-> ""]
IdleThread ==
    [op |-> "none", pc |-> "idle", self |-> SharedInstance, name |-> "",
     info |-> FALSE, apiKey |-> "", endpoint |-> "", err |-> NoErr,
     wrap |-> FALSE, entered |-> FALSE]

MaxCalls == 2      \* chat calls that run concurrently
MaxStreamed == 3   \* chunks the streams of the concurrent calls deliver, together

CallIds == 1..MaxCalls
IdleCall ==
    [pc |-> "idle", cb |-> FALSE, model |-> "", sent |-> NilPtr, chunks |-> 0,
     delivered |-> <<>>, lastRaw |-> NilReason, reply |-> NoReply, result |-> NoResult]
ZeroLocals == [fullContent |-> <<>>, finishReason |-> FinishReasonUnset]

\* the state of the concurrent calls when there are none
ConcIdle ==
    /\ conc = [c \in CallIds |-> IdleCall]
    /\ locals = [c \in CallIds |-> ZeroLocals]

\* the state of the plugin when no goroutine calls it
PluginIdle ==
    /\ az = [i \in Instances |-> NewPlugin("", "")]
    /\ mu = [i \in Instances |-> Unlocked]
    /\ env = NoEnv
    /\ registry = {}
    /\ thread = [t \in Threads |-> IdleThread]

(***************************************************************************)
(* The conversion functions applied to every input of ConvInputs.          *)
(***************************************************************************)
NoOutput == [done |-> FALSE]
EmptyRequest == [Messages |-> <<>>, Tools |-> <<>>, Config |-> NoConfig]

ConvInit ==
    /\ ConcIdle
    /\ PluginIdle
    /\ input \in ConvInputs
    /\ output = NoOutput
    /\ CallIdle(EmptyRequest, FALSE, "idle")
    /\ EmbedIdle(NoEmbedRequest)

Apply_convertMessage ==
    /\ input.op = "convertMessage"
    /\ ~output.done
    /\ output' = [done |-> TRUE, res |-> convertMessage(input.msg)]
    /\ UNCHANGED <<concVars, pluginVars, input, callVars>>

Apply_convertToAzureOpenAIRequest ==
    /\ input.op = "convertToAzureOpenAIRequest"
    /\ ~output.done
    /\ output' = [done |-> TRUE, res |-> convertToAzureOpenAIRequest(input.mr, input.cfg)]
    /\ UNCHANGED <<concVars, pluginVars, input, callVars>>

Apply_convertFinishReason ==
    /\ input.op = "convertFinishReason"
    /\ ~output.done
    /\ output' = [done |-> TRUE, res |-> convertFinishReason(input.reason)]
    /\ UNCHANGED <<concVars, pluginVars, input, callVars>>

Apply_convertTools ==
    /\ input.op = "convertTools"
    /\ ~output.done
    /\ output' = [done |-> TRUE, res |-> convertTools(input.tools)]
    /\ UNCHANGED <<concVars, pluginVars, input, callVars>>

\* extractTextContent on the concatenation of two part sequences and on
\* each of the two
Apply_extractTextContent ==
    /\ input.op = "extractTextContent"
    /\ ~output.done
    /\ output' = [done |-> TRUE,
                  res |-> [whole |-> extractTextContent(input.parts1 \o input.parts2),
                           left |-> extractTextContent(input.parts1),
                           right |-> extractTextContent(input.parts2)]]
    /\ UNCHANGED <<concVars, pluginVars, input, callVars>>

ConvNext ==
    \/ Apply_convertTools
    \/ Apply_extractTextContent
    \/ Apply_convertMessage
    \/ Apply_convertToAzureOpenAIRequest
    \/ Apply_convertFinishReason

ConvSpec == ConvInit /\ [][ConvNext]_vars

(***************************************************************************)
(* Properties of the conversion functions.                                 *)
(***************************************************************************)
KnownRoles == {RoleSystem, RoleUser, RoleModel, RoleTool}

VariantOf(role) ==
    CASE role = RoleSystem -> "ChatRequestSystemMessage"
      [] role = RoleUser -> "ChatRequestUserMessage"
      [] role = RoleModel -> "ChatRequestAssistantMessage"
      [] role = RoleTool -> "ChatRequestToolMessage"

\* the texts of the text parts of parts, one after the other
RECURSIVE TextOf(_)
TextOf(parts) ==
    IF parts = <<>> THEN <<>>
    ELSE (IF Head(parts).Kind = PartText THEN Head(parts).Text ELSE <<>>)
         \o TextOf(Tail(parts))

Converted(op) == input.op = op /\ output.done

\* C1: for a message of role system, user, model or tool convertMessage
\* returns, without error, the provider message variant of that role whose
\* content is the texts of the message's text parts concatenated in order
\* with no separator; for any other role it returns an unsupported-role
\* error and no message.
C1_ConvertMessage ==
    Converted("convertMessage") =>
        IF input.msg.Role \in KnownRoles
        THEN /\ output.res.err = NoErr
             /\ output.res.msg.Type = VariantOf(input.msg.Role)
             /\ output.res.msg.Content = TextOf(input.msg.Content)
        ELSE /\ output.res.err = <<"unsupported role: ", input.msg.Role>>
             /\ output.res.msg = NilMessage

\* a tool message of a text part, a media part and another text part was
\* converted
C1_Witness ==
    /\ Converted("convertMessage")
    /\ input.msg.Role = RoleTool
    /\ input.msg.Content = <<[Kind |-> PartText, Text |-> <<"a">>],
                             [Kind |-> PartMedia, Text |-> <<"b">>],
                             [Kind |-> PartText, Text |-> <<"b">>]>>
    /\ output.res.msg.Content = <<"a", "b">>

ErrDeploymentName == <<"deployment name is required">>
AllRolesKnown(msgs) == \A i \in 1..Len(msgs) : msgs[i].Role \in KnownRoles

\* C2 as stated: convertToAzureOpenAIRequest fails with the
\* missing-deployment-name error if and only if the config's DeploymentName
\* is empty, whatever the other fields of the request and config are.
C2_Original ==
    Converted("convertToAzureOpenAIRequest") =>
        (output.res.err = ErrDeploymentName <=> input.cfg.DeploymentName = "")

\* C2 amended: convertToAzureOpenAIRequest fails with the
\* missing-deployment-name error if and only if the config's DeploymentName
\* is empty and every message of the request has a supported role, whatever
\* the message contents, the tools and the optional fields are.
C2_DeploymentNameRequired ==
    Converted("convertToAzureOpenAIRequest") =>
        (output.res.err = ErrDeploymentName
            <=> (input.cfg.DeploymentName = "" /\ AllRolesKnown(input.mr.Messages)))

\* a request of two supported messages and a tool whose schema cannot be
\* encoded, with an empty deployment name and an optional field set, failed
\* with the missing-deployment-name error
C2_Witness ==
    /\ Converted("convertToAzureOpenAIRequest")
    /\ input.cfg.DeploymentName = ""
    /\ ~input.cfg.MaxTokens.isNil
    /\ Len(input.mr.Messages) = 2
    /\ AllRolesKnown(input.mr.Messages)
    /\ Len(input.mr.Tools) = 1
    /\ input.mr.Tools[1].InputSchema = SchemaChan
    /\ output.res.err = ErrDeploymentName

\* C9: convertFinishReason maps stopped to stop, token-limit-reached to
\* length, content-filtered to blocked, tool-calls to stop, function-call to
\* other and every other provider reason to other.
C9_FinishReasonTable ==
    Converted("convertFinishReason") =>
        /\ input.reason = "stop" => output.res = "stop"
        /\ input.reason = "length" => output.res = "length"
        /\ input.reason = "content_filter" => output.res = "blocked"
        /\ input.reason = "tool_calls" => output.res = "stop"
        /\ input.reason = "function_call" => output.res = "other"
        /\ input.reason \notin {"stop", "length", "content_filter", "tool_calls"}
               => output.res = "other"
        /\ output.res \in {"stop", "length", "blocked", "other"}

\* the tool-calls reason was mapped
C9_Witness ==
    /\ Converted("convertFinishReason")
    /\ input.reason = CompletionsFinishReasonToolCalls
    /\ output.res = FinishReasonStop

\* the bytes a schema encodes to, when it can be encoded
Encodable(schema) ==
    schema.isNil \/ \A i \in 1..Len(schema.entries) : schema.entries[i].kind # "chan"
EncodedSchema(schema) ==
    IF schema = SchemaNil THEN <<"null">>
    ELSE <<"{", "\"", "type", "\":\"", "object", "\"", "}">>

\* C16: convertTools returns either one function tool definition per tool,
\* in the order of the tools, each with its tool's name, description and
\* encoded schema, or, when a tool's schema cannot be encoded, an error and
\* no tool definition at all.
C16_ConvertToolsAllOrNothing ==
    Converted("convertTools") =>
        IF \A i \in 1..Len(input.tools) : Encodable(input.tools[i].InputSchema)
        THEN /\ output.res.err = NoErr
             /\ Len(output.res.tools) = Len(input.tools)
             /\ \A i \in 1..Len(input.tools) :
                   /\ output.res.tools[i].Type = "function"
                   /\ output.res.tools[i].Function.Name = input.tools[i].Name
                   /\ output.res.tools[i].Function.Description = input.tools[i].Description
                   /\ output.res.tools[i].Function.Parameters =
                          EncodedSchema(input.tools[i].InputSchema)
        ELSE /\ output.res.err # NoErr
             /\ output.res.tools = <<>>

\* a list of a tool that can be encoded followed by one that cannot was
\* converted to an error and no definition
C16_Witness ==
    /\ Converted("convertTools")
    /\ Len(input.tools) = 2
    /\ input.tools[1].InputSchema = SchemaObject
    /\ input.tools[2].InputSchema = SchemaChan
    /\ output.res.err # NoErr
    /\ output.res.tools = <<>>

\* C17: extractTextContent of the concatenation of two part sequences is
\* extractTextContent of the first followed by extractTextContent of the
\* second, with nothing in between.
C17_ExtractDistributes ==
    Converted("extractTextContent") =>
        output.res.whole = output.res.left \o output.res.right

\* two sequences of one text part each were extracted
C17_Witness ==
    /\ Converted("extractTextContent")
    /\ input.parts1 = <<NewTextPart(<<"a">>)>>
    /\ input.parts2 = <<NewTextPart(<<"b">>)>>
    /\ output.res.whole = <<"a", "b">>
    /\ output.res.left = <<"a">>

Unsupported(msgs) == {i \in 1..Len(msgs) : msgs[i].Role \notin KnownRoles}

\* C25: convertToAzureOpenAIRequest reports the first defect in this order:
\* the unsupported role of the first offending message, then the missing
\* deployment name, then a tool schema that cannot be encoded; no message
\* after the first failing one is converted, and the tools are not
\* converted when a message or the deployment name fails.
C25_CheckOrder ==
    Converted("convertToAzureOpenAIRequest") =>
        LET msgs == input.mr.Messages
            bad == Unsupported(msgs)
            res == output.res
        IN  IF bad # {}
            THEN LET first == CHOOSE i \in bad : \A j \in bad : i <= j
                 IN  /\ res.err = <<"unsupported role: ", msgs[first].Role>>
                     /\ res.trace.messages = first
                     /\ ~res.trace.tools
            ELSE IF input.cfg.DeploymentName = ""
            THEN /\ res.err = ErrDeploymentName
                 /\ ~res.trace.tools
            ELSE IF \E i \in 1..Len(input.mr.Tools) :
                        ~Encodable(input.mr.Tools[i].InputSchema)
            THEN /\ Len(res.err) > 1
                 /\ res.err[1] = "failed to marshal tool parameters: "
            ELSE res.err = NoErr

\* a request with all three defects, two of its messages having an
\* unsupported role, failed on the first message without converting the
\* second
C25_Witness ==
    /\ Converted("convertToAzureOpenAIRequest")
    /\ Len(input.mr.Messages) = 2
    /\ Unsupported(input.mr.Messages) = {1, 2}
    /\ input.cfg.DeploymentName = ""
    /\ Len(input.mr.Tools) = 1
    /\ input.mr.Tools[1].InputSchema = SchemaChan
    /\ output.res.err = <<"unsupported role: ", "unknown_role">>
    /\ output.res.trace.messages = 1

\* C26: a request built without error has one provider message per input
\* message, in order, the config's deployment name, and every optional
\* parameter set to the config's value exactly when the config has it, an
\* empty logit-bias map and an empty user counting as absent.
C26_RequestAsConfigured ==
    (Converted("convertToAzureOpenAIRequest") /\ output.res.err = NoErr) =>
        LET o == output.res.options
            c == input.cfg
            msgs == input.mr.Messages
        IN  /\ Len(o.Messages) = Len(msgs)
            /\ \A i \in 1..Len(msgs) :
                  /\ o.Messages[i].Type = VariantOf(msgs[i].Role)
                  /\ o.Messages[i].Content = TextOf(msgs[i].Content)
            /\ o.DeploymentName = Ptr(c.DeploymentName)
            /\ \A f \in PointerFields : o[f] = c[f]
            /\ o.LogitBias = (IF c.LogitBias.m = <<>> THEN NilMap ELSE c.LogitBias)
            /\ (o.User.isNil <=> c.User = "")
            /\ (c.User # "" => o.User = Ptr(c.User))

\* a request of a system and a user message was built with a config that has
\* an empty user, an empty logit-bias map and a seed
C26_Witness ==
    /\ Converted("convertToAzureOpenAIRequest")
    /\ output.res.err = NoErr
    /\ Len(input.mr.Messages) = 2
    /\ input.mr.Messages[1].Role = RoleSystem
    /\ input.mr.Messages[2].Role = RoleUser
    /\ input.cfg.User = ""
    /\ input.cfg.LogitBias = EmptyMap
    /\ ~input.cfg.Seed.isNil
    /\ output.res.options.User = NilPtr
    /\ output.res.options.LogitBias = NilMap
    /\ output.res.options.Seed = Ptr("42")

(***************************************************************************)
(* A chat call through the handler that defineModel registers.             *)
(***************************************************************************)
ModelName == "gpt-4o"

HandlerRequests ==
    [Messages : {<<[Role |-> r, Content |-> <<NewTextPart(<<"a">>)>>]>> :
                    r \in {RoleUser, "unknown_role"}},
     Tools : {<<>>},
     Config : {NoConfig, OtherConfig, NilOpenAIConfigPtr, OpenAIConfigPtr(ZeroConfig),
               OpenAIConfigPtr([ZeroConfig EXCEPT !.DeploymentName = "dep1"])}]

\* what the provider can return
Deltas == {<<"a">>, <<"b">>}
OptDeltas == {NilPtr} \cup {Ptr(t) : t \in Deltas}
OptTexts == {NilPtr} \cup {Ptr(t) : t \in Texts}
OptReasons == {NilPtr} \cup {Ptr(r) : r \in ProviderReasons}
\* a stream's choices carry one of three reasons, whose mappings differ
StreamReasons ==
    { CompletionsFinishReasonStopped, CompletionsFinishReasonContentFiltered, "future_reason" }
OptStreamReasons == {NilPtr} \cup {Ptr(r) : r \in StreamReasons}
StreamChoices == [Delta : [Content : OptDeltas], FinishReason : OptStreamReasons]
ReplyChoices == [Message : [Content : OptTexts], FinishReason : OptReasons]
ReadErrors == {"context canceled", "provider error"}

Failed(chain) == [status |-> "error", err |-> chain]
Panicked(cause) == [status |-> "panic", cause |-> cause]
Response(text, reason) ==
    [status |-> "ok",
     resp |-> [Message |-> [Content |-> <<NewTextPart(text)>>, Role |-> RoleModel],
               FinishReason |-> reason]]

Init ==
    /\ ConcIdle
    /\ PluginIdle
    /\ input = [op |-> "none"]
    /\ output = NoOutput
    /\ \E request \in HandlerRequests, callback \in BOOLEAN :
          CallIdle(request, callback, "handler")
    /\ EmbedIdle(NoEmbedRequest)

streamVars == <<opened, reads, closes, chunkNo, nChoices, choiceIdx, choice,
                fullContent, finishReason, delivered, lastRaw, overwritten,
                cbLog, cbInChunk>>

\* where the handler goes once the request is built: to the streaming path
\* if and only if a callback was supplied
DispatchPc_syncOnly(callback) == "nonstream"

DispatchPc(callback) == IF callback THEN "open" ELSE "nonstream"

\* the deployment name the handler uses: the configured one, and the name the
\* model was registered under when none is configured
DefaultDeploymentName_keep(configured, name) == configured

DefaultDeploymentName(configured, name) == IF configured = "" THEN name ELSE configured

\* the handler returns without dispatching when the conversion reported an
\* error
ConversionFailed_ignored(err) == FALSE

ConversionFailed(err) == err # NoErr

\* the handler of defineModel: the config is taken from the request (a nil
\* *OpenAIConfig is dereferenced), the deployment name defaults to the model
\* name, the request is converted and the call goes to the streaming or to
\* the non-streaming path
defineModel_handler ==
    /\ pc = "handler"
    /\ IF mr.Config.type = "OpenAIConfig" /\ mr.Config.isNil
       THEN /\ result' = Panicked("nil pointer dereference")
            /\ pc' = "done"
            /\ UNCHANGED <<mr, options>>
       ELSE LET typed == IF mr.Config.type = "OpenAIConfig" THEN mr.Config.cfg
                         ELSE ZeroConfig
                defaulted == typed.DeploymentName = ""
                cfg == [typed EXCEPT !.DeploymentName =
                            DefaultDeploymentName(typed.DeploymentName, ModelName)]
                request == IF defaulted THEN [mr EXCEPT !.Config = OpenAIConfigPtr(cfg)]
                           ELSE mr
                built == convertToAzureOpenAIRequest(request, cfg)
            IN  /\ mr' = request
                /\ IF ConversionFailed(built.err)
                   THEN /\ result' = Failed(<<"failed to convert request: ">> \o built.err)
                        /\ pc' = "done"
                        /\ UNCHANGED options
                   ELSE /\ options' = built.options
                        /\ pc' = DispatchPc(cb)
                        /\ UNCHANGED result
    /\ UNCHANGED <<concVars, pluginVars, input, output, req, body, cb, calls, reply, streamVars>>

\* handleStreamingRequest: GetChatCompletionsStream is called; once it has
\* succeeded, Close is deferred
handleStreamingRequest_Open ==
    /\ pc = "open"
    /\ calls' = Append(calls, [api |-> "GetChatCompletionsStream",
                               DeploymentName |-> options.DeploymentName, N |-> 1])
    /\ \E ok \in BOOLEAN :
          IF ok
          THEN /\ opened' = TRUE
               /\ pc' = "read"
               /\ UNCHANGED result
          ELSE /\ result' = Failed(<<"failed to get chat completions stream: ", "provider error">>)
               /\ pc' = "done"
               /\ UNCHANGED opened
    /\ UNCHANGED <<concVars, pluginVars, input, output, req, body, mr, cb, options, reply, reads, closes, chunkNo,
                   nChoices, choiceIdx, choice, fullContent, finishReason,
                   delivered, lastRaw, overwritten, cbLog, cbInChunk>>

\* where a return of handleStreamingRequest goes once the stream is open:
\* on every path the deferred Close runs first
ExitPc_closeAtEndOnly(path) == IF path = "eof" THEN "defer" ELSE "done"

ExitPc(path) == "defer"

\* where the loop over the choices of a chunk goes after choice i of n
AfterChoice(i, n) ==
    IF i < n THEN [pc |-> "choice", choiceIdx |-> i + 1, nChoices |-> n]
    ELSE [pc |-> "read", choiceIdx |-> 0, nChoices |-> 0]

\* one Read of the stream: end of stream, a read error, or a chunk
handleStreamingRequest_Read ==
    /\ pc = "read"
    /\ reads' = reads + 1
    /\ \/ /\ result' = Response(fullContent, finishReason)
          /\ pc' = ExitPc("eof")
          /\ UNCHANGED <<chunkNo, nChoices, choiceIdx>>
       \/ /\ \E cause \in ReadErrors :
                result' = Failed(<<"failed to read chat completion: ", cause>>)
          /\ pc' = ExitPc("read_error")
          /\ UNCHANGED <<chunkNo, nChoices, choiceIdx>>
       \/ /\ chunkNo < MaxChunks
          /\ \E n \in 0..MaxChoices :
                /\ nChoices' = AfterChoice(0, n).nChoices
                /\ choiceIdx' = AfterChoice(0, n).choiceIdx
                /\ pc' = AfterChoice(0, n).pc
          /\ chunkNo' = chunkNo + 1
          /\ UNCHANGED result
    /\ UNCHANGED <<concVars, pluginVars, input, output, req, body, mr, cb, options, calls, reply, opened, closes,
                   choice, fullContent, finishReason, delivered, lastRaw,
                   overwritten, cbLog, cbInChunk>>

\* fullContent.WriteString(content)
WriteString_keepLast(builder, content) == content

WriteString(builder, content) == builder \o content

\* where the handler is while the callback runs: the call is synchronous
CallbackPc_async == "finish"

CallbackPc == "callback"

\* the next choice of the chunk: its delta is written to the builder and the
\* callback is invoked with it
handleStreamingRequest_Delta ==
    /\ pc = "choice"
    /\ \E c \in StreamChoices :
          /\ choice' = c
          /\ lastRaw' = IF c.FinishReason.isNil THEN lastRaw ELSE c.FinishReason.val
          /\ IF c.Delta.Content.isNil
             THEN /\ pc' = "finish"
                  /\ UNCHANGED <<fullContent, delivered, cbLog, cbInChunk>>
             ELSE /\ delivered' = Append(delivered, c.Delta.Content.val)
                  /\ fullContent' = WriteString(fullContent, c.Delta.Content.val)
                  /\ IF cb
                     THEN /\ cbLog' = Append(cbLog,
                                 [arg |-> [Content |-> <<NewTextPart(c.Delta.Content.val)>>,
                                           Role |-> RoleModel],
                                  ret |-> "pending"])
                          /\ cbInChunk' = cbInChunk + 1
                          /\ pc' = CallbackPc
                     ELSE /\ pc' = "finish"
                          /\ UNCHANGED <<cbLog, cbInChunk>>
    /\ UNCHANGED <<concVars, pluginVars, input, output, req, body, mr, cb, options, calls, reply, opened, reads,
                   closes, chunkNo, nChoices, choiceIdx, finishReason,
                   overwritten, result>>

\* what the callback returns: nil or an error
CallbackErrors == {"callback failed"}

\* after the callback has returned ret: an error ends the call
OnCallbackReturn_ignoreError(ret, staged) == [pc |-> "finish", result |-> staged]

OnCallbackReturn(ret, staged) ==
    IF ret # "nil"
    THEN [pc |-> ExitPc("callback_error"),
          result |-> Failed(<<"streaming callback error: ", ret>>)]
    ELSE [pc |-> "finish", result |-> staged]

\* the callback returns
handleStreamingRequest_CallbackReturn ==
    /\ pc = "callback"
    /\ \E ret \in {"nil"} \cup CallbackErrors :
          /\ cbLog' = [cbLog EXCEPT ![Len(cbLog)].ret = ret]
          /\ pc' = OnCallbackReturn(ret, result).pc
          /\ result' = OnCallbackReturn(ret, result).result
    /\ UNCHANGED <<concVars, pluginVars, input, output, req, body, mr, cb, options, calls, reply, opened, reads,
                   closes, chunkNo, nChoices, choiceIdx, choice, fullContent,
                   finishReason, delivered, lastRaw, overwritten, cbInChunk>>

\* the finish reason to keep after a choice carrying the pointer raw
RecordFinishReason_firstWins(current, raw) ==
    IF raw.isNil \/ current # FinishReasonUnset THEN current
    ELSE convertFinishReason(raw.val)

RecordFinishReason(current, raw) ==
    IF raw.isNil THEN current ELSE convertFinishReason(raw.val)

\* the choice's finish reason is recorded and the loop goes on
handleStreamingRequest_Finish ==
    /\ pc = "finish"
    /\ finishReason' = RecordFinishReason(finishReason, choice.FinishReason)
    /\ overwritten' = (overwritten \/
                        (finishReason # FinishReasonUnset /\ ~choice.FinishReason.isNil))
    /\ choice' = NoChoice
    /\ pc' = AfterChoice(choiceIdx, nChoices).pc
    /\ choiceIdx' = AfterChoice(choiceIdx, nChoices).choiceIdx
    /\ nChoices' = AfterChoice(choiceIdx, nChoices).nChoices
    /\ cbInChunk' = IF choiceIdx < nChoices THEN cbInChunk ELSE 0
    /\ UNCHANGED <<concVars, pluginVars, input, output, req, body, mr, cb, options, calls, reply, opened, reads,
                   closes, chunkNo, fullContent, delivered, lastRaw, cbLog, result>>

\* the deferred Close runs and the call returns
handleStreamingRequest_Close ==
    /\ pc = "defer"
    /\ closes' = closes + 1
    /\ pc' = "done"
    /\ UNCHANGED <<concVars, pluginVars, input, output, req, body, mr, cb, options, calls, reply, opened, reads,
                   chunkNo, nChoices, choiceIdx, choice, fullContent, finishReason,
                   delivered, lastRaw, overwritten, cbLog, cbInChunk, result>>

\* what the provider can reply to GetChatCompletions
Replies ==
    {[err |-> <<"provider error">>, Choices |-> <<>>]}
    \cup {[err |-> NoErr, Choices |-> cs] : cs \in SeqsUpTo(ReplyChoices, MaxChoices)}

\* the response of handleNonStreamingRequest to a reply with choices
ResponseOfChoices_last(choices) ==
    LET first == choices[Len(choices)]
        content == IF first.Message.Content.isNil THEN <<>>
                   ELSE first.Message.Content.val
        reason == IF first.FinishReason.isNil THEN FinishReasonStop
                  ELSE convertFinishReason(first.FinishReason.val)
    IN  Response(content, reason)

ResponseOfChoices(choices) ==
    LET first == choices[1]
        content == IF first.Message.Content.isNil THEN <<>>
                   ELSE first.Message.Content.val
        reason == IF first.FinishReason.isNil THEN FinishReasonStop
                  ELSE convertFinishReason(first.FinishReason.val)
    IN  Response(content, reason)

\* what handleNonStreamingRequest returns for the provider's reply r
ResultOfReply_emptyText(r) ==
    IF r.err # NoErr
    THEN Failed(<<"failed to get chat completions: ">> \o r.err)
    ELSE IF Len(r.Choices) = 0
    THEN Response(<<>>, FinishReasonStop)
    ELSE ResponseOfChoices(r.Choices)

ResultOfReply(r) ==
    IF r.err # NoErr
    THEN Failed(<<"failed to get chat completions: ">> \o r.err)
    ELSE IF Len(r.Choices) = 0
    THEN Failed(<<"no choices returned from Azure OpenAI">>)
    ELSE ResponseOfChoices(r.Choices)

\* handleNonStreamingRequest
handleNonStreamingRequest ==
    /\ pc = "nonstream"
    /\ calls' = Append(calls, [api |-> "GetChatCompletions",
                               DeploymentName |-> options.DeploymentName, N |-> 0])
    /\ \E r \in Replies :
          /\ reply' = r
          /\ result' = ResultOfReply(r)
    /\ pc' = "done"
    /\ UNCHANGED <<concVars, pluginVars, input, output, req, body, mr, cb, options, streamVars>>

Next ==
    \/ defineModel_handler
    \/ handleStreamingRequest_Open
    \/ handleStreamingRequest_Read
    \/ handleStreamingRequest_Delta
    \/ handleStreamingRequest_CallbackReturn
    \/ handleStreamingRequest_Finish
    \/ handleStreamingRequest_Close
    \/ handleNonStreamingRequest

Spec == Init /\ [][Next]_vars

(***************************************************************************)
(* Properties of the dispatch paths.                                       *)
(***************************************************************************)
Returned == pc = "done"
StreamEndedNormally == Returned /\ opened /\ result.status = "ok"
NoCallbackPending == \A i \in 1..Len(cbLog) : cbLog[i].ret # "pending"
CallbackFailed == \E i \in 1..Len(cbLog) : cbLog[i].ret \in CallbackErrors

RECURSIVE Concat(_)
Concat(texts) == IF texts = <<>> THEN <<>> ELSE Head(texts) \o Concat(Tail(texts))

TextPartOf(text) == [Kind |-> PartText, Text |-> text]

C4_Original == cbInChunk <= 1

\* C4 amended: for every chunk read the callback is invoked at most once per
\* choice of that chunk (so at most once for a chunk of at most one choice);
\* an invocation starts only when no other is pending, in the arrival order
\* of the deltas, and it has returned before the next chunk is read.
C4_CallbackPerChoice ==
    /\ [](/\ cbInChunk <= choiceIdx
          /\ choiceIdx <= nChoices
          /\ Len(cbLog) <= Len(delivered)
          /\ \A i \in 1..Len(cbLog) : cbLog[i].arg.Content[1].Text = delivered[i])
    /\ [][/\ reads' # reads => NoCallbackPending
          /\ Len(cbLog') > Len(cbLog) => NoCallbackPending]_vars

\* the second chunk was read after the callback had been invoked for both
\* choices of the first chunk
C4_Witness ==
    /\ pc = "choice"
    /\ chunkNo = 2
    /\ choiceIdx = 1
    /\ reads = 2
    /\ Len(cbLog) = 2
    /\ NoCallbackPending

\* C5: once a callback invocation has returned an error, no chunk is read
\* and no callback is invoked any more, and the call returns an error that
\* wraps the callback's error and no response, whatever was accumulated.
C5_CallbackErrorAborts ==
    /\ [](CallbackFailed =>
            /\ pc \in {"defer", "done"}
            /\ result = Failed(<<"streaming callback error: ", cbLog[Len(cbLog)].ret>>))
    /\ [][CallbackFailed =>
            /\ reads' = reads
            /\ chunkNo' = chunkNo
            /\ cbLog' = cbLog
            /\ result' = result]_vars

\* the callback failed on the second delta, after content had been
\* accumulated, and the call has returned
C5_Witness ==
    /\ Returned
    /\ CallbackFailed
    /\ Len(cbLog) = 2
    /\ fullContent # <<>>
    /\ chunkNo < MaxChunks
    /\ result.status = "error"

\* C6: once the stream has been opened it is closed exactly once before the
\* call returns, on every exit path, it is never closed twice or unopened,
\* and no Read follows the Close.
C6_StreamClosedOnce ==
    /\ [](/\ closes <= 1
          /\ (Returned /\ opened) => closes = 1
          /\ ~opened => closes = 0)
    /\ [][reads' # reads => closes = 0]_vars

\* a call whose callback failed has returned with the stream closed
C6_Witness ==
    /\ Returned
    /\ opened
    /\ CallbackFailed
    /\ closes = 1

\* C7: when a streaming call ends normally and some choice carried a finish
\* reason, the response's finish reason is convertFinishReason of the last
\* one carried in arrival order, whatever was recorded before.
C7_LastFinishReasonWins ==
    (StreamEndedNormally /\ lastRaw # NilReason) =>
        result.resp.FinishReason = convertFinishReason(lastRaw)

\* a reason recorded from an earlier choice was replaced by a later one
C7_Witness ==
    /\ StreamEndedNormally
    /\ overwritten
    /\ lastRaw = CompletionsFinishReasonContentFiltered
    /\ result.resp.FinishReason = FinishReasonBlocked

\* C8 as stated: every response returned without error by either path has
\* role model, exactly one text part and a finish reason among stop, length,
\* blocked and other.
C8_ResponseShape ==
    (Returned /\ result.status = "ok") =>
        /\ result.resp.Message.Role = RoleModel
        /\ Len(result.resp.Message.Content) = 1
        /\ result.resp.Message.Content[1].Kind = PartText
        /\ result.resp.FinishReason \in
              {FinishReasonStop, FinishReasonLength, FinishReasonBlocked, FinishReasonOther}

NonStreamingReturned == Returned /\ Len(calls) = 1 /\ calls[1].api = "GetChatCompletions"

\* C10: when the provider's reply to a non-streaming call has at least one
\* choice, the response's single text part is the first choice's content
\* (empty if it has none) and its finish reason is convertFinishReason of
\* the first choice's reason, or stop if it has none; later choices do not
\* count.
C10_FirstChoiceOnly ==
    (NonStreamingReturned /\ reply.err = NoErr /\ Len(reply.Choices) >= 1) =>
        /\ result.status = "ok"
        /\ result.resp.Message.Content =
              <<TextPartOf(IF reply.Choices[1].Message.Content.isNil THEN <<>>
                           ELSE reply.Choices[1].Message.Content.val)>>
        /\ result.resp.FinishReason =
              (IF reply.Choices[1].FinishReason.isNil THEN FinishReasonStop
               ELSE convertFinishReason(reply.Choices[1].FinishReason.val))

\* a reply of two different choices was answered from the first
C10_Witness ==
    /\ NonStreamingReturned
    /\ Len(reply.Choices) = 2
    /\ reply.Choices[1] = [Message |-> [Content |-> Ptr(<<"a">>)],
                           FinishReason |-> Ptr(CompletionsFinishReasonTokenLimitReached)]
    /\ reply.Choices[2] = [Message |-> [Content |-> Ptr(<<"b">>)],
                           FinishReason |-> Ptr(CompletionsFinishReasonStopped)]
    /\ result = Response(<<"a">>, FinishReasonLength)

\* C11: in a non-streaming call, when the provider call succeeds but returns
\* zero choices, the call returns the no-choices error and no response,
\* never a response with empty text.
C11_ZeroChoicesFails ==
    (NonStreamingReturned /\ reply.err = NoErr /\ Len(reply.Choices) = 0) =>
        /\ result = Failed(<<"no choices returned from Azure OpenAI">>)
        /\ result.status # "ok"

\* a non-streaming call whose provider call succeeded with zero choices has
\* returned
C11_Witness ==
    /\ NonStreamingReturned
    /\ ~cb
    /\ reply.err = NoErr
    /\ reply.Choices = <<>>
    /\ result.status = "error"

(***************************************************************************)
(* An embedding call through the handler that defineEmbedder registers.    *)
(***************************************************************************)
MaxDocs == 2       \* documents of one embed request
MaxDocParts == 2   \* parts of the documents of one embed request, together
MaxData == 2       \* embedding items one provider reply carries

EmbedderName == "text-embedding-3-small"

\* req.Options: nil, a value of another type, a nil *EmbedConfig or a
\* pointer to an EmbedConfig
OtherOptions == [type |-> "other"]
NilEmbedConfigPtr == [type |-> "EmbedConfig", isNil |-> TRUE]
EmbedConfigPtr(config) == [type |-> "EmbedConfig", isNil |-> FALSE, val |-> config]
EmbedConfigs ==
    { [DeploymentName |-> "", User |-> ""],
      [DeploymentName |-> "dep1", User |-> "test-user"] }
EmbedOptions ==
    {NoOptions, OtherOptions, NilEmbedConfigPtr} \cup {EmbedConfigPtr(c) : c \in EmbedConfigs}

\* the parts of a document: the handler reads their Text, never their Kind
DocParts ==
    { NewTextPart(<<>>), NewTextPart(<<"a">>), [Kind |-> PartMedia, Text |-> <<"b">>] }
\* the lists of at most d documents that have at most n parts together
RECURSIVE Documents(_, _)
Documents(d, n) ==
    {<<>>} \cup
    IF d = 0 THEN {}
    ELSE UNION { { <<[Content |-> c]>> \o rest : rest \in Documents(d - 1, n - Len(c)) } :
                 c \in SeqsUpTo(DocParts, n) }
EmbedRequests == [Input : Documents(MaxDocs, MaxDocParts), Options : EmbedOptions]

\* the non-empty texts of a document's parts, in order
RECURSIVE textPartsOf(_)
textPartsOf(parts) ==
    IF parts = <<>> THEN <<>>
    ELSE (IF Head(parts).Text # <<>> THEN <<Head(parts).Text>> ELSE <<>>)
         \o textPartsOf(Tail(parts))

\* the input strings of the documents: one per document that has a text
RECURSIVE embedInput_unspaced(_)
embedInput_unspaced(docs) ==
    IF docs = <<>> THEN <<>>
    ELSE LET textParts == textPartsOf(Head(docs).Content)
         IN  (IF Len(textParts) > 0 THEN <<Join(textParts, <<>>)>> ELSE <<>>)
             \o embedInput_unspaced(Tail(docs))

RECURSIVE embedInput(_)
embedInput(docs) ==
    IF docs = <<>> THEN <<>>
    ELSE LET textParts == textPartsOf(Head(docs).Content)
         IN  (IF Len(textParts) > 0 THEN <<Join(textParts, <<" ">>)>> ELSE <<>>)
             \o embedInput(Tail(docs))

\* the call is refused when no input string was collected
NoEmbeddableContent_noDocuments(docs, strings) == Len(docs) = 0

NoEmbeddableContent_anyTextless(docs, strings) == Len(strings) < Len(docs) \/ Len(strings) = 0

NoEmbeddableContent(docs, strings) == Len(strings) = 0

EmbedInit ==
    /\ ConcIdle
    /\ PluginIdle
    /\ input = [op |-> "none"]
    /\ output = NoOutput
    /\ CallIdle(EmptyRequest, FALSE, "embedder")
    /\ \E request \in EmbedRequests : EmbedIdle(request)

\* the handler of defineEmbedder up to the provider call: the config is
\* taken from the options or defaults to the embedder's name, the input
\* strings are collected and the request body is built
defineEmbedder_handler ==
    /\ pc = "embedder"
    /\ LET typed == req.Options.type = "EmbedConfig"
           strings == embedInput(req.Input)
       IN  IF NoEmbeddableContent(req.Input, strings)
           THEN /\ result' = Failed(<<"no text content found in input documents">>)
                /\ pc' = "done"
                /\ UNCHANGED body
           ELSE IF typed /\ req.Options.isNil
           THEN /\ result' = Panicked("nil pointer dereference")
                /\ pc' = "done"
                /\ UNCHANGED body
           ELSE LET config == IF typed THEN req.Options.val
                              ELSE [DeploymentName |-> EmbedderName, User |-> ""]
                IN  /\ body' = [Input |-> strings,
                                DeploymentName |-> Ptr(config.DeploymentName),
                                User |-> IF config.User # "" THEN Ptr(config.User)
                                         ELSE NilPtr]
                    /\ pc' = "embed"
                    /\ UNCHANGED result
    /\ UNCHANGED <<concVars, pluginVars, input, output, req, mr, cb, options, calls, reply, streamVars>>

\* what the provider can reply to GetEmbeddings: an error, or up to MaxData
\* items in the order of their indices or in the reverse order
EmbeddingItem(i) == [Embedding |-> <<i>>, Index |-> i - 1]
EmbeddingData ==
    { [k \in 1..n |-> EmbeddingItem(IF rev THEN n + 1 - k ELSE k)] :
        n \in 0..MaxData, rev \in BOOLEAN }
EmbedReplies ==
    {[err |-> <<"provider error">>, Data |-> <<>>]}
    \cup {[err |-> NoErr, Data |-> d] : d \in EmbeddingData}

\* the embeddings of the response: one per item of the reply, in its order
embeddingsOf_byIndex(data) ==
    [i \in 1..Len(data) |->
        [Embedding |-> data[CHOOSE k \in 1..Len(data) : data[k].Index = i - 1].Embedding]]

embeddingsOf(data) == [i \in 1..Len(data) |-> [Embedding |-> data[i].Embedding]]

EmbedResponse(embeddings) == [status |-> "ok", resp |-> [Embeddings |-> embeddings]]

\* the provider call of the handler of defineEmbedder and its return
defineEmbedder_GetEmbeddings ==
    /\ pc = "embed"
    /\ calls' = Append(calls, [api |-> "GetEmbeddings",
                               DeploymentName |-> body.DeploymentName,
                               Input |-> body.Input, User |-> body.User])
    /\ \E r \in EmbedReplies :
          /\ reply' = r
          /\ result' = IF r.err # NoErr
                       THEN Failed(<<"failed to get embeddings from Azure OpenAI: ">> \o r.err)
                       ELSE EmbedResponse(embeddingsOf(r.Data))
    /\ pc' = "done"
    /\ UNCHANGED <<concVars, pluginVars, input, output, req, body, mr, cb, options, streamVars>>

EmbedNext ==
    \/ defineEmbedder_handler
    \/ defineEmbedder_GetEmbeddings

EmbedSpec == EmbedInit /\ [][EmbedNext]_vars

(***************************************************************************)
(* Properties of the embedding call.                                       *)
(***************************************************************************)
HasFragment(part) == part.Text # <<>>
HasText(doc) == \E i \in 1..Len(doc.Content) : HasFragment(doc.Content[i])
AllTextless(docs) == \A i \in 1..Len(docs) : ~HasText(docs[i])
ErrNoText == Failed(<<"no text content found in input documents">>)
EmbedSucceeded == pc = "done" /\ result.status = "ok"

C13_Original ==
    EmbedSucceeded => Len(result.resp.Embeddings) = Len(calls[1].Input)

\* C13 amended: in every successful embedding call the response has one
\* embedding per item of the provider's reply, carrying that item's vector,
\* in the order of the reply.
C13_EmbeddingsAsReturned ==
    EmbedSucceeded =>
        /\ Len(result.resp.Embeddings) = Len(reply.Data)
        /\ \A i \in 1..Len(reply.Data) :
              result.resp.Embeddings[i] = [Embedding |-> reply.Data[i].Embedding]

\* a call that sent two input strings has succeeded with the two vectors of
\* a reply whose items came with the second index first
C13_Witness ==
    /\ EmbedSucceeded
    /\ Len(calls[1].Input) = 2
    /\ Len(reply.Data) = 2
    /\ reply.Data[1].Index = 1
    /\ result.resp.Embeddings = <<[Embedding |-> <<2>>], [Embedding |-> <<1>>]>>

\* the texts joined with one space between neighbours
RECURSIVE Spaced(_)
Spaced(texts) ==
    IF Len(texts) = 1 THEN texts[1]
    ELSE Spaced(SubSeq(texts, 1, Len(texts) - 1)) \o <<" ">> \o texts[Len(texts)]

FragmentsOf(doc) ==
    LET kept == SelectSeq(doc.Content, HasFragment)
    IN  [i \in 1..Len(kept) |-> kept[i].Text]

C15_Original ==
    (\E i \in 1..Len(req.Input) : ~HasText(req.Input[i])) =>
        /\ calls = <<>>
        /\ pc = "done" => result.status = "error"

\* C15 amended: the call fails with the no-text-content error, before the
\* provider is reached, if and only if no input document has a text;
\* otherwise the documents without text are skipped and the call goes to the
\* provider unless it ended abnormally before.
C15_SomeDocumentHasText ==
    /\ calls # <<>> => ~AllTextless(req.Input)
    /\ pc = "done" =>
          /\ result = ErrNoText <=> AllTextless(req.Input)
          /\ calls = <<>> <=> (AllTextless(req.Input) \/ result.status = "panic")

\* a call of a document with text and a document without text reached the
\* provider with one input string
C15_Witness ==
    /\ pc = "done"
    /\ Len(req.Input) = 2
    /\ HasText(req.Input[1])
    /\ ~HasText(req.Input[2])
    /\ Len(calls) = 1
    /\ Len(calls[1].Input) = 1

\* C18: every request that reaches the provider carries a non-empty
\* deployment name.
C18_DeploymentNameOnEveryRequest ==
    \A i \in 1..Len(calls) :
        /\ ~calls[i].DeploymentName.isNil
        /\ calls[i].DeploymentName.val # ""

\* C19: a chat call never ends in a panic, whatever messages and config the
\* caller supplies.
C19_NeverPanics == result.status # "panic"

ChatCallAPI == IF cb THEN "GetChatCompletionsStream" ELSE "GetChatCompletions"
RequestBuilt == options # ZeroOptions

\* C20: a chat call makes at most one provider call, makes none when its
\* request was not built, and a call whose request was built has, when it
\* returns, made exactly one: the streaming call if a callback was supplied,
\* the synchronous call otherwise.
C20_OneProviderCall ==
    /\ Len(calls) <= 1
    /\ calls # <<>> => (RequestBuilt /\ calls[1].api = ChatCallAPI)
    /\ (Returned /\ RequestBuilt) => Len(calls) = 1

\* a non-streaming call whose provider call failed has returned after that
\* one call
C20_Witness ==
    /\ Returned
    /\ RequestBuilt
    /\ ~cb
    /\ reply.err # NoErr
    /\ result.status = "error"
    /\ calls = <<[api |-> "GetChatCompletions", DeploymentName |-> Ptr(ModelName), N |-> 0]>>

ConfiguredName(config) ==
    IF config.type = "OpenAIConfig" THEN config.cfg.DeploymentName ELSE ""

CallInit == Init \/ EmbedInit

CallNext == Next \/ EmbedNext

CallSpec == CallInit /\ [][CallNext]_vars

\* an embedding call leaves the chat request empty; a chat request has a
\* message
IsEmbedCall == mr = EmptyRequest

ErrConvert == "failed to convert request: "
IsValidationError(res) ==
    /\ res.status = "error"
    /\ \/ res = ErrNoText
       \/ /\ Len(res.err) >= 2
          /\ res.err[1] = ErrConvert
          /\ res.err[2] \in {"unsupported role: ", ErrDeploymentName[1]}

\* C21: a call that fails with a validation error (unsupported role, missing
\* deployment name, no embeddable content) has made no provider call, and a
\* call whose request has such a defect never makes one.
C21_ValidationBeforeProvider ==
    /\ IsValidationError(result) => calls = <<>>
    /\ (~IsEmbedCall /\ Unsupported(mr.Messages) # {}) => calls = <<>>
    /\ (IsEmbedCall /\ AllTextless(req.Input)) => calls = <<>>

\* a streaming chat call with a message of an unsupported role has returned
\* the validation error
C21_Witness ==
    /\ ~IsEmbedCall
    /\ Returned
    /\ cb
    /\ result = Failed(<<ErrConvert, "unsupported role: ", "unknown_role">>)
    /\ calls = <<>>

(***************************************************************************)
(* The plugin: Init, DefineModel and DefineEmbedder of one AzureOpenAI     *)
(* instance called by concurrent goroutines, one call each, while the      *)
(* process environment changes.                                            *)
(***************************************************************************)
FieldKeys == {"", "field-key"}
FieldEndpoints == {"", "field-endpoint"}
Environments ==
    [AZURE_OPEN_AI_API_KEY : {"", "env-key"},
     AZURE_OPEN_AI_ENDPOINT : {"", "env-endpoint"}]

\* the catalog, cut to two models and one embedder; the names DefineModel
\* and DefineEmbedder are called with
listModels == {"gpt-4o", "text-embedding-3-small"}
listEmbedders == {"text-embedding-3-small"}
DefinedNames == {"gpt-4o", "custom-model"}
EmbedderNames == {"text-embedding-3-small", "unknown-embedder"}

ErrAlreadyInitialized == <<"plugin already initialized">>
ErrNotInitialized == <<"AzureOpenAI plugin not initialized">>
ErrAPIKey == <<"Azure OpenAI requires setting AZURE_OPEN_AI_API_KEY in the environment">>
ErrEndpoint == <<"Azure OpenAI requires setting AZURE_OPEN_AI_ENDPOINT in the environment">>
ErrNewClient == <<"client creation failed">>
ErrUnknownModel(name) ==
    <<"AzureOpenAI.DefineModel: called with unknown model ", name, " and nil ModelInfo">>
ErrUnsupportedEmbedder(name) == <<"embedder ", name, " is not supported">>
InitPrefix == "AzureOpenAI.Init: "

Client(endpoint, apiKey) == Ptr([endpoint |-> endpoint, key |-> apiKey])
ModelEntry(name, client, t) == [kind |-> "model", name |-> name, client |-> client, by |-> t]
EmbedderEntry(name, client, t) ==
    [kind |-> "embedder", name |-> name, client |-> client, by |-> t]

PluginInit ==
    /\ ConcIdle
    /\ input = [op |-> "none"]
    /\ output = NoOutput
    /\ CallIdle(EmptyRequest, FALSE, "idle")
    /\ EmbedIdle(NoEmbedRequest)
    /\ \E apiKey \in FieldKeys, endpoint \in FieldEndpoints :
          az = [i \in Instances |->
                    IF i = SharedInstance THEN NewPlugin(apiKey, endpoint)
                    ELSE NewPlugin("", "")]
    /\ mu = [i \in Instances |-> Unlocked]
    /\ env \in Environments
    /\ registry = {}
    /\ thread = [t \in Threads |-> IdleThread]

\* sync.Mutex: Lock returns only when no goroutine holds the mutex
CanLock_always(holder) == TRUE

CanLock(holder) == holder = Unlocked

\* Init refuses an instance that is initialized
AlreadyInitialized_never(plugin) == FALSE

AlreadyInitialized(plugin) == plugin.initted

\* a credential: the field of the instance, and the environment variable
\* when the field is empty
Resolve_envFirst(field, variable) == IF variable # "" THEN variable ELSE field

Resolve(field, variable) == IF field = "" THEN variable ELSE field

\* the deferred function of Init, once registered, prefixes a non-nil error
Wrap_always(registered, err) ==
    IF err # NoErr THEN <<InitPrefix>> \o err ELSE err

Wrap(registered, err) ==
    IF registered /\ err # NoErr THEN <<InitPrefix>> \o err ELSE err

\* the catalog lookup of DefineModel with a nil info
KnownModel_any(name) == TRUE

KnownModel(name) == name \in listModels

Goto(t, at) == [thread EXCEPT ![t].pc = at]
Fail(t, err) == [thread EXCEPT ![t].pc = "unlock", ![t].err = err]

\* the goroutines are numbered in the order in which they make their calls
Ready(t) ==
    /\ thread[t].pc = "idle"
    /\ \A u \in Threads : u < t => thread[u].pc # "idle"

\* a goroutine calls Init: on a nil receiver, Init works on an instance of
\* its own
Init_Call(t) ==
    /\ Ready(t)
    /\ \E nilReceiver \in BOOLEAN :
          LET self == IF nilReceiver THEN t ELSE SharedInstance
          IN  thread' = [thread EXCEPT ![t].op = "Init", ![t].pc = "lock",
                                       ![t].self = self,
                                       ![t].entered = az[self].initted]
    /\ UNCHANGED <<az, mu, env, registry, input, output, callVars, concVars>>

\* Init takes the mutex, returns if the instance is initialized and
\* otherwise defers the wrapping of its error
Init_Lock(t) ==
    /\ thread[t].op = "Init"
    /\ thread[t].pc = "lock"
    /\ CanLock(mu[thread[t].self])
    /\ mu' = [mu EXCEPT ![thread[t].self] = t]
    /\ thread' = IF AlreadyInitialized(az[thread[t].self])
                 THEN Fail(t, ErrAlreadyInitialized)
                 ELSE [thread EXCEPT ![t].pc = "apiKey", ![t].wrap = TRUE]
    /\ UNCHANGED <<az, env, registry, input, output, callVars, concVars>>

Init_APIKey(t) ==
    /\ thread[t].op = "Init"
    /\ thread[t].pc = "apiKey"
    /\ LET apiKey == Resolve(az[thread[t].self].APIKey, env.AZURE_OPEN_AI_API_KEY)
       IN  thread' = IF apiKey = "" THEN Fail(t, ErrAPIKey)
                     ELSE [thread EXCEPT ![t].pc = "endpoint", ![t].apiKey = apiKey]
    /\ UNCHANGED <<az, mu, env, registry, input, output, callVars, concVars>>

Init_Endpoint(t) ==
    /\ thread[t].op = "Init"
    /\ thread[t].pc = "endpoint"
    /\ LET endpoint == Resolve(az[thread[t].self].Endpoint, env.AZURE_OPEN_AI_ENDPOINT)
       IN  thread' = IF endpoint = "" THEN Fail(t, ErrEndpoint)
                     ELSE [thread EXCEPT ![t].pc = "client", ![t].endpoint = endpoint]
    /\ UNCHANGED <<az, mu, env, registry, input, output, callVars, concVars>>

\* NewClientWithKeyCredential fails or returns a client, which is stored
Init_NewClient(t) ==
    /\ thread[t].op = "Init"
    /\ thread[t].pc = "client"
    /\ \E ok \in BOOLEAN :
          IF ok
          THEN /\ az' = [az EXCEPT ![thread[t].self].client =
                                      Client(thread[t].endpoint, thread[t].apiKey)]
               /\ thread' = Goto(t, "register")
          ELSE /\ thread' = Fail(t, ErrNewClient)
               /\ UNCHANGED az
    /\ UNCHANGED <<mu, env, registry, input, output, callVars, concVars>>

\* the instance is marked initialized, and the models and the embedders of
\* the catalog are registered with the stored client
Init_Register(t) ==
    /\ thread[t].op = "Init"
    /\ thread[t].pc = "register"
    /\ az' = [az EXCEPT ![thread[t].self].initted = TRUE]
    /\ registry' = registry
                   \cup {ModelEntry(n, az[thread[t].self].client, t) : n \in listModels}
                   \cup {EmbedderEntry(n, az[thread[t].self].client, t) : n \in listEmbedders}
    /\ thread' = Goto(t, "unlock")
    /\ UNCHANGED <<mu, env, input, output, callVars, concVars>>

\* Init returns: the deferred functions wrap the error and release the mutex
Init_Return(t) ==
    /\ thread[t].op = "Init"
    /\ thread[t].pc = "unlock"
    /\ thread' = [thread EXCEPT ![t].pc = "returned",
                                ![t].err = Wrap(thread[t].wrap, thread[t].err),
                                ![t].apiKey = "", ![t].endpoint = ""]
    /\ mu' = [mu EXCEPT ![thread[t].self] = Unlocked]
    /\ UNCHANGED <<az, env, registry, input, output, callVars, concVars>>

\* a goroutine calls the method DefineModel of the shared instance
DefineModel_Call(t) ==
    /\ Ready(t)
    /\ \E name \in DefinedNames, info \in BOOLEAN :
          thread' = [thread EXCEPT ![t].op = "DefineModel", ![t].pc = "lock",
                                   ![t].name = name, ![t].info = info,
                                   ![t].entered = az[SharedInstance].initted]
    /\ UNCHANGED <<az, mu, env, registry, input, output, callVars, concVars>>

DefineModel_Lock(t) ==
    /\ thread[t].op = "DefineModel"
    /\ thread[t].pc = "lock"
    /\ CanLock(mu[thread[t].self])
    /\ mu' = [mu EXCEPT ![thread[t].self] = t]
    /\ thread' = IF ~az[thread[t].self].initted
                 THEN Fail(t, ErrNotInitialized)
                 ELSE Goto(t, "define")
    /\ UNCHANGED <<az, env, registry, input, output, callVars, concVars>>

\* with a nil info the model must be in the catalog; the model is
\* registered with the stored client
DefineModel_Define(t) ==
    /\ thread[t].op = "DefineModel"
    /\ thread[t].pc = "define"
    /\ IF ~thread[t].info /\ ~KnownModel(thread[t].name)
       THEN /\ thread' = Fail(t, ErrUnknownModel(thread[t].name))
            /\ UNCHANGED registry
       ELSE /\ registry' = registry
                   \cup {ModelEntry(thread[t].name, az[thread[t].self].client, t)}
            /\ thread' = Goto(t, "unlock")
    /\ UNCHANGED <<az, mu, env, input, output, callVars, concVars>>

DefineModel_Return(t) ==
    /\ thread[t].op = "DefineModel"
    /\ thread[t].pc = "unlock"
    /\ thread' = Goto(t, "returned")
    /\ mu' = [mu EXCEPT ![thread[t].self] = Unlocked]
    /\ UNCHANGED <<az, env, registry, input, output, callVars, concVars>>

\* the method DefineEmbedder takes no mutex and reads the client as it is
DefineEmbedder(t) ==
    /\ Ready(t)
    /\ \E name \in EmbedderNames :
          IF name \notin listEmbedders
          THEN /\ thread' = [thread EXCEPT ![t].op = "DefineEmbedder",
                                           ![t].pc = "returned", ![t].name = name,
                                           ![t].err = ErrUnsupportedEmbedder(name)]
               /\ UNCHANGED registry
          ELSE /\ thread' = [thread EXCEPT ![t].op = "DefineEmbedder",
                                           ![t].pc = "returned", ![t].name = name]
               /\ registry' = registry
                      \cup {EmbedderEntry(name, az[SharedInstance].client, t)}
    /\ UNCHANGED <<az, mu, env, input, output, callVars, concVars>>

\* the process sets or unsets one of the two environment variables
Setenv ==
    /\ \E e \in Environments :
          /\ \/ e.AZURE_OPEN_AI_API_KEY = env.AZURE_OPEN_AI_API_KEY
             \/ e.AZURE_OPEN_AI_ENDPOINT = env.AZURE_OPEN_AI_ENDPOINT
          /\ e # env
          /\ env' = e
    /\ UNCHANGED <<az, mu, registry, thread, input, output, callVars, concVars>>

PluginNext ==
    \/ Setenv
    \/ \E t \in Threads :
          \/ Init_Call(t)
          \/ Init_Lock(t)
          \/ Init_APIKey(t)
          \/ Init_Endpoint(t)
          \/ Init_NewClient(t)
          \/ Init_Register(t)
          \/ Init_Return(t)
          \/ DefineModel_Call(t)
          \/ DefineModel_Lock(t)
          \/ DefineModel_Define(t)
          \/ DefineModel_Return(t)
          \/ DefineEmbedder(t)

PluginSpec == PluginInit /\ [][PluginNext]_vars

(***************************************************************************)
(* Properties of the plugin.                                               *)
(***************************************************************************)
Contains(err, text) == \E k \in 1..Len(err) : err[k] = text
InitReturned(t) == thread[t].op = "Init" /\ thread[t].pc = "returned"
RegisteredBy(t) == {e \in registry : e.by = t}

\* C22: once an instance is initialized it stays initialized with the same
\* client, and an Init called on an initialized instance returns an error
\* containing 'plugin already initialized'.
C22_InitOnce ==
    [][ /\ \A i \in Instances :
              az[i].initted => (az'[i].initted /\ az'[i].client = az[i].client)
        /\ \A t \in Threads :
              (thread'[t].op = "Init" /\ thread'[t].pc = "returned" /\ thread'[t].entered) =>
                  Contains(thread'[t].err, ErrAlreadyInitialized[1])
      ]_vars

\* one Init has initialized the shared instance and an Init called after
\* that has returned the error; the client is the first Init's
C22_Witness ==
    \E t, u \in Threads :
        /\ InitReturned(t) /\ thread[t].self = SharedInstance
        /\ thread[t].err = NoErr
        /\ InitReturned(u) /\ thread[u].self = SharedInstance
        /\ thread[u].entered
        /\ thread[u].err = ErrAlreadyInitialized
        /\ az[SharedInstance].initted
        /\ ~az[SharedInstance].client.isNil

\* C23: the method DefineModel succeeds exactly when the instance is
\* initialized and the info is non-nil or the name is in the catalog, and
\* then it has registered the model with the stored client; on an
\* uninitialized instance it fails with 'AzureOpenAI plugin not initialized',
\* with a nil info and an unknown name with the unknown-model error, and a
\* failed call has registered nothing.
C23_DefineModelOutcome ==
    \A t \in Threads :
        (thread[t].op = "DefineModel" /\ thread[t].pc \in {"unlock", "returned"}) =>
            LET plugin == az[thread[t].self]
                known == thread[t].name \in listModels
                ok == thread[t].err = NoErr
            IN  /\ thread[t].pc = "unlock" =>
                      /\ ok <=> (plugin.initted /\ (thread[t].info \/ known))
                      /\ ~plugin.initted => thread[t].err = ErrNotInitialized
                      /\ (plugin.initted /\ ~thread[t].info /\ ~known) =>
                            thread[t].err = ErrUnknownModel(thread[t].name)
                      /\ ok => RegisteredBy(t) =
                                  {ModelEntry(thread[t].name, plugin.client, t)}
                /\ ok => \E e \in RegisteredBy(t) :
                            e.kind = "model" /\ e.name = thread[t].name
                /\ ~ok => RegisteredBy(t) = {}

\* on the initialized instance a DefineModel with a nil info and a name that
\* is not in the catalog has failed and registered nothing
C23_Witness ==
    \E t \in Threads :
        /\ thread[t].op = "DefineModel"
        /\ thread[t].pc = "returned"
        /\ az[SharedInstance].initted
        /\ ~thread[t].info
        /\ thread[t].name = "custom-model"
        /\ thread[t].err = ErrUnknownModel("custom-model")
        /\ RegisteredBy(t) = {}

\* C27 as stated: every error Init returns starts with 'AzureOpenAI.Init:'.
C27_Original ==
    \A t \in Threads :
        (InitReturned(t) /\ thread[t].err # NoErr) => thread[t].err[1] = InitPrefix

\* C27: every error Init returns other than 'plugin already initialized'
\* (missing API key, missing endpoint, client creation failure) starts with
\* 'AzureOpenAI.Init:'; 'plugin already initialized' is returned without
\* the prefix.
C27_InitErrorsWrapped ==
    \A t \in Threads :
        (InitReturned(t) /\ thread[t].err # NoErr) =>
            \/ thread[t].err = ErrAlreadyInitialized
            \/ /\ thread[t].err[1] = InitPrefix
               /\ Tail(thread[t].err) \in {ErrAPIKey, ErrEndpoint, ErrNewClient}

\* an Init that had deferred the wrapping has failed for a missing endpoint
C27_Witness ==
    \E t \in Threads :
        /\ InitReturned(t)
        /\ thread[t].wrap
        /\ thread[t].err = <<InitPrefix>> \o ErrEndpoint

\* the goroutines between Lock and Unlock on an instance, and the Init
\* calls that stored a client in it
Holding(i) ==
    {t \in Threads : thread[t].self = i /\ thread[t].op \in {"Init", "DefineModel"}
                     /\ thread[t].pc \notin {"idle", "lock", "returned"}}
Storers(i) ==
    {t \in Threads :
        /\ thread[t].op = "Init" /\ thread[t].self = i
        /\ \/ thread[t].pc = "register"
           \/ thread[t].pc \in {"unlock", "returned"} /\ thread[t].err = NoErr}
OtherInits(i) ==
    {t \in Threads : InitReturned(t) /\ thread[t].self = i /\ t \notin Storers(i)}
DefineModelSeesClient ==
    \A t \in Threads :
        (thread[t].op = "DefineModel" /\ thread[t].pc = "define") =>
            ~az[thread[t].self].client.isNil

\* C28 as stated: at most one Init stores a client, every other Init returns
\* 'plugin already initialized', and DefineModel never sees the flag set
\* with the client unset.
C28_Original ==
    /\ \A i \in Instances :
          /\ Cardinality(Storers(i)) <= 1
          /\ Storers(i) # {} =>
                \A t \in OtherInits(i) : Contains(thread[t].err, ErrAlreadyInitialized[1])
    /\ DefineModelSeesClient

\* C28: at most one goroutine is between Lock and Unlock of an instance; at
\* most one Init stores a client and registers the catalog; every other
\* Init either failed before a client was stored (missing API key, missing
\* endpoint, client creation failure) or returns 'plugin already
\* initialized', which every Init that takes the mutex of an initialized
\* instance does; and DefineModel never sees the flag set with the client
\* unset.
C28_MutualExclusion ==
    /\ \A i \in Instances :
          /\ Cardinality(Holding(i)) <= 1
          /\ \A t \in Holding(i) : mu[i] = t
          /\ Cardinality(Storers(i)) <= 1
          /\ Cardinality({e \in registry : e.kind = "model" /\ e.name = "gpt-4o"
                              /\ thread[e.by].op = "Init" /\ thread[e.by].self = i}) <= 1
          /\ \A t \in OtherInits(i) :
                \/ Contains(thread[t].err, ErrAlreadyInitialized[1])
                \/ Tail(thread[t].err) \in {ErrAPIKey, ErrEndpoint, ErrNewClient}
          /\ az[i].initted =>
                \A t \in Holding(i) \ Storers(i) :
                    thread[t].op = "Init" => thread[t].err = ErrAlreadyInitialized
    /\ DefineModelSeesClient

\* of two Init calls on the shared instance one has stored the client and
\* the other, which was called before the instance was initialized, has
\* returned 'plugin already initialized'
C28_Witness ==
    \E t, u \in Threads :
        /\ Storers(SharedInstance) = {t}
        /\ InitReturned(t)
        /\ InitReturned(u) /\ thread[u].self = SharedInstance
        /\ ~thread[u].entered
        /\ thread[u].err = ErrAlreadyInitialized

\* C30: an Init that fails for a missing API key or endpoint returns with
\* the instance uninitialized and without a client; the API key is resolved
\* before the endpoint is looked at; a stored client was made from the
\* instance's fields where they are non-empty; and while the instance is
\* uninitialized every DefineModel past its check has failed with
\* 'AzureOpenAI plugin not initialized'.
C30_FailedInitLeavesUninitialized ==
    /\ \A t \in Threads :
          (thread[t].op = "Init" /\ thread[t].pc = "unlock"
                /\ thread[t].err \in {ErrAPIKey, ErrEndpoint}) =>
              /\ ~az[thread[t].self].initted
              /\ az[thread[t].self].client = NilPtr
              /\ thread[t].err = ErrAPIKey =>
                    (az[thread[t].self].APIKey = "" /\ thread[t].endpoint = "")
              /\ thread[t].err = ErrEndpoint =>
                    (az[thread[t].self].Endpoint = "" /\ thread[t].apiKey # "")
    /\ \A i \in Instances :
          /\ ~az[i].client.isNil =>
                /\ az[i].APIKey # "" => az[i].client.val.key = az[i].APIKey
                /\ az[i].Endpoint # "" => az[i].client.val.endpoint = az[i].Endpoint
                /\ az[i].client.val.key # ""
                /\ az[i].client.val.endpoint # ""
          /\ ~az[i].initted =>
                \A t \in Threads :
                    (thread[t].op = "DefineModel" /\ thread[t].self = i
                        /\ thread[t].pc \in {"unlock", "returned"}) =>
                        thread[t].err = ErrNotInitialized

\* an Init on the shared instance has failed for the missing API key and,
\* the variable set since, another Init on it has succeeded with the key of
\* the environment
C30_Witness ==
    \E t, u \in Threads :
        /\ InitReturned(t) /\ thread[t].self = SharedInstance
        /\ thread[t].err = <<InitPrefix>> \o ErrAPIKey
        /\ InitReturned(u) /\ thread[u].self = SharedInstance
        /\ thread[u].err = NoErr
        /\ az[SharedInstance].initted
        /\ az[SharedInstance].client.val.key = "env-key"

(***************************************************************************)
(* Concurrent chat calls through the handlers that defineModel registers:  *)
(* each call is one invocation of the handler closure, with its own        *)
(* arguments, locals and provider stream.                                  *)
(***************************************************************************)
Handles == {"gpt-4o", "gpt-4o-mini"}

\* what the provider sends to call c: so that a text is known by its call,
\* the stream and the reply of each call carry a letter of their own, and
\* the streams of two calls that follow each other different finish reasons
Letters == <<"a", "b", "c", "d">>
DeltaOf(c) == <<Letters[c]>>
ReasonOf(c) ==
    IF c % 2 = 1 THEN CompletionsFinishReasonStopped
    ELSE CompletionsFinishReasonContentFiltered
ConcChoices(c) ==
    [Delta : [Content : {NilPtr, Ptr(DeltaOf(c))}],
     FinishReason : {NilPtr, Ptr(ReasonOf(c))}]
ConcReplies(c) ==
    {[err |-> <<"provider error">>, Choices |-> <<>>], [err |-> NoErr, Choices |-> <<>>]}
    \cup {[err |-> NoErr,
           Choices |-> <<[Message |-> [Content |-> Ptr(DeltaOf(c))], FinishReason |-> r]>>] :
             r \in {NilPtr, Ptr(CompletionsFinishReasonStopped)}}

\* fullContent and finishReason are local variables of handleStreamingRequest:
\* every call has its own
LocalsOf_shared(c) == 1

LocalsOf(c) == c

RECURSIVE Streamed(_)
Streamed(n) == IF n = 0 THEN 0 ELSE conc[n].chunks + Streamed(n - 1)

ConcInit ==
    /\ PluginIdle
    /\ input = [op |-> "none"]
    /\ output = NoOutput
    /\ CallIdle(EmptyRequest, FALSE, "idle")
    /\ EmbedIdle(NoEmbedRequest)
    /\ conc \in [CallIds -> {[IdleCall EXCEPT !.pc = "handler", !.cb = b, !.model = m] :
                                b \in BOOLEAN, m \in Handles}]
    /\ conc[1].model = "gpt-4o"
    /\ locals = [c \in CallIds |-> ZeroLocals]

\* the handler of call c up to its provider call: the deployment name
\* defaults to the name of the handle; with a callback the stream is opened
\* and the locals of handleStreamingRequest are declared, without one the
\* provider's reply is turned into the result
Conc_Handler(c) ==
    /\ conc[c].pc = "handler"
    /\ LET sent == Ptr(DefaultDeploymentName("", conc[c].model))
       IN  IF conc[c].cb
           THEN \E ok \in BOOLEAN :
                   IF ok
                   THEN /\ conc' = [conc EXCEPT ![c].pc = "read", ![c].sent = sent]
                        /\ locals' = [locals EXCEPT ![LocalsOf(c)] = ZeroLocals]
                   ELSE /\ conc' = [conc EXCEPT
                               ![c].pc = "done", ![c].sent = sent,
                               ![c].result = Failed(<<"failed to get chat completions stream: ",
                                                      "provider error">>)]
                        /\ UNCHANGED locals
           ELSE /\ \E r \in ConcReplies(c) :
                      conc' = [conc EXCEPT ![c].pc = "done", ![c].sent = sent,
                                           ![c].reply = r,
                                           ![c].result = ResultOfReply(r)]
                /\ UNCHANGED locals
    /\ UNCHANGED <<pluginVars, input, output, callVars>>

\* call c reads a chunk of one choice from its stream: the delta is written
\* to the builder and passed to the callback, whose error ends the call, and
\* the finish reason is recorded
Conc_Chunk(c) ==
    /\ conc[c].pc = "read"
    /\ Streamed(MaxCalls) < MaxStreamed
    /\ \E ch \in ConcChoices(c), ret \in {"nil"} \cup CallbackErrors :
          LET delta == ch.Delta.Content
              mine == locals[LocalsOf(c)]
              written == IF delta.isNil THEN mine.fullContent
                         ELSE WriteString(mine.fullContent, delta.val)
              failed == OnCallbackReturn(ret, NoResult).result # NoResult
          IN  /\ delta.isNil => ret = "nil"
              /\ conc' = [conc EXCEPT
                    ![c].chunks = @ + 1,
                    ![c].delivered = IF delta.isNil THEN @ ELSE Append(@, delta.val),
                    ![c].lastRaw = IF ch.FinishReason.isNil THEN @ ELSE ch.FinishReason.val,
                    ![c].pc = IF failed THEN "done" ELSE "read",
                    ![c].result = OnCallbackReturn(ret, NoResult).result]
              /\ locals' = [locals EXCEPT ![LocalsOf(c)] =
                    [fullContent |-> written,
                     finishReason |-> IF failed THEN mine.finishReason
                                      ELSE RecordFinishReason(mine.finishReason,
                                                              ch.FinishReason)]]
    /\ UNCHANGED <<pluginVars, input, output, callVars>>

\* the stream of call c ends or fails: the call returns what its locals hold
\* or the read error, and the stream is closed
Conc_End(c) ==
    /\ conc[c].pc = "read"
    /\ \/ conc' = [conc EXCEPT
              ![c].pc = "done",
              ![c].result = Response(locals[LocalsOf(c)].fullContent,
                                     locals[LocalsOf(c)].finishReason)]
       \/ conc' = [conc EXCEPT
              ![c].pc = "done",
              ![c].result = Failed(<<"failed to read chat completion: ", "provider error">>)]
    /\ UNCHANGED <<pluginVars, input, output, callVars, locals>>

ConcNext ==
    \E c \in CallIds :
        \/ Conc_Handler(c)
        \/ Conc_Chunk(c)
        \/ Conc_End(c)

ConcSpec == ConcInit /\ [][ConcNext]_vars

\* the finish reason of the last choice of call c's stream that carried one
OwnReason(c) ==
    IF conc[c].lastRaw = NilReason THEN FinishReasonUnset
    ELSE convertFinishReason(conc[c].lastRaw)

\* C24: whatever the interleaving of concurrent chat calls, a streaming call
\* accumulates and returns the concatenation of the deltas of its own stream
\* and the last finish reason of its own stream, a non-streaming call
\* returns what its own reply gives, and each call is sent under the name of
\* its own handle.
C24_CallsIsolated ==
    \A c \in CallIds :
        /\ conc[c].pc = "read" =>
              /\ locals[c].fullContent = Concat(conc[c].delivered)
              /\ locals[c].finishReason = OwnReason(c)
        /\ (conc[c].pc = "done" /\ conc[c].result.status = "ok") =>
              conc[c].result =
                  IF conc[c].cb
                  THEN Response(Concat(conc[c].delivered), OwnReason(c))
                  ELSE ResultOfReply(conc[c].reply)
        /\ ~conc[c].sent.isNil => conc[c].sent = Ptr(conc[c].model)

\* the first call has returned the two deltas of its stream while the
\* second, on the same handle, is reading a stream that has delivered one
\* delta and a finish reason of its own
C24_Witness ==
    /\ conc[1].pc = "done"
    /\ conc[1].cb
    /\ conc[1].result = Response(<<"a", "a">>, FinishReasonStop)
    /\ conc[2].pc = "read"
    /\ conc[2].model = conc[1].model
    /\ conc[2].delivered = <<DeltaOf(2)>>
    /\ conc[2].lastRaw = CompletionsFinishReasonContentFiltered
    /\ locals[2].fullContent = <<"b">>

====
